---- MODULE Spec2Model ----
(***************************************************************************)
(* Model of lib/beautifier.py (cheat.sh): the text/code line classifier,   *)
(* the cleanup pass, the reflow engine, the block segmenter and the        *)
(* cached entry point beautify().                                          *)
(*                                                                         *)
(* A string is a sequence of one-character strings; a line is a string     *)
(* without "\n"; a document is a sequence of lines.                        *)
(***************************************************************************)
EXTENDS Integers, Sequences, FiniteSets, TLC

VARIABLES
    doc,        \* pure-function harness: the input document
    lines,      \* pure-function harness: the list of lines being processed
    prev,       \* pure-function harness: the list before the last operation
    labels,     \* pure-function harness: result of _classify_lines(lines)
    blocks,     \* pure-function harness: result of code_blocks(...)
    segmented,  \* pure-function harness: the (label, line) pairs code_blocks grouped
    last,       \* pure-function harness: name of the last operation applied
    ncleanup,   \* pure-function harness: how many times _cleanup_lines was applied
    reflowed,   \* pure-function harness: result of _wrap_lines(zip(labels, lines), umode)
    origin,     \* pure-function harness: origin[k] is the line reflowed[k] was made from
    umode,      \* pure-function harness: the unindent_code argument of _wrap_lines
    script,     \* pure-function harness: result of _commenting_script
    line_types, \* _classify_lines step by step: the list `line_types`
    changed,    \* _classify_lines step by step: the flag `changed`
    nscans,     \* _classify_lines step by step: iterations of `while changed` so far
    pc,         \* beautify(): position of each request
    req,        \* beautify(): arguments of each request (text, lang, options)
    answer,     \* beautify(): local variable `answer` of each request
    outcome,    \* beautify(): what the caller gets (returned value or exception)
    trace,      \* beautify(): collaborator calls made by each request, in order
    vimok,      \* beautify(): whether the external vim run of the request rewrote the file
    cache       \* REDIS: fingerprint -> stored value

vars == <<doc, lines, prev, labels, blocks, segmented, last, ncleanup,
          reflowed, origin, umode, script, line_types, changed, nscans,
          pc, req, answer, outcome, trace, vimok, cache>>

wrapVars == <<reflowed, origin, umode, script>>
loopVars == <<line_types, changed, nscans>>
linesVars == <<doc, lines, prev, labels, blocks, segmented, last, ncleanup,
               reflowed, origin, umode, script, line_types, changed, nscans>>
callVars  == <<pc, req, answer, outcome, trace, vimok, cache>>

-----------------------------------------------------------------------------
(* Python string primitives                                                *)

Whitespace == {" ", "\n"}

Sp(n) == [i \in 1..n |-> " "]

RECURSIVE lstrip(_)
lstrip(s) ==
    IF s # <<>> /\ Head(s) \in Whitespace THEN lstrip(Tail(s)) ELSE s

RECURSIVE rstrip(_)
rstrip(s) ==
    IF s # <<>> /\ s[Len(s)] \in Whitespace
    THEN rstrip(SubSeq(s, 1, Len(s) - 1))
    ELSE s

strip(s) == rstrip(lstrip(s))

startswith(s, prefix) ==
    /\ Len(s) >= Len(prefix)
    /\ SubSeq(s, 1, Len(prefix)) = prefix

endswith(s, suffix) ==
    /\ Len(s) >= Len(suffix)
    /\ SubSeq(s, Len(s) - Len(suffix) + 1, Len(s)) = suffix

\* "\n".join(strs)
RECURSIVE join(_)
join(strs) ==
    IF strs = <<>> THEN <<>>
    ELSE IF Len(strs) = 1 THEN strs[1]
    ELSE strs[1] \o <<"\n">> \o join(Tail(strs))

Min(S) == CHOOSE m \in S : \A n \in S : m <= n

\* text.splitlines(): a final newline ends the last line, it starts no new one
RECURSIVE splitlines(_)
splitlines(text) ==
    IF text = <<>> THEN <<>>
    ELSE LET nls == {i \in 1..Len(text) : text[i] = "\n"}
         IN IF nls = {} THEN <<text>>
            ELSE <<SubSeq(text, 1, Min(nls) - 1)>>
                 \o splitlines(SubSeq(text, Min(nls) + 1, Len(text)))

\* itertools.groupby(items, key): keys[i] is the key of items[i]
\* a groupby that starts a new group at every item
RunOfOne(keys, n) == n

RECURSIVE runlen(_, _)
runlen(keys, n) ==
    IF n < Len(keys) /\ keys[n + 1] = keys[1] THEN runlen(keys, n + 1) ELSE n

RECURSIVE groupby(_, _)
groupby(items, keys) ==
    IF items = <<>> THEN <<>>
    ELSE LET n == runlen(keys, 1)
         IN <<[key |-> keys[1], group |-> SubSeq(items, 1, n)]>>
            \o groupby(SubSeq(items, n + 1, Len(items)),
                       SubSeq(keys, n + 1, Len(keys)))

-----------------------------------------------------------------------------
(* _cleanup_lines                                                          *)

IsBlank(line) == strip(line) = <<>>

\* an `if` where the `while` is: at most one leading blank line is dropped
SkipStartOnce(ls, start) ==
    IF start < Len(ls) /\ IsBlank(ls[start + 1]) THEN start + 1 ELSE start

\* while start < len(lines) and lines[start].strip() == '': start += 1
RECURSIVE SkipStart(_, _)
SkipStart(ls, start) ==
    IF start < Len(ls) /\ IsBlank(ls[start + 1])
    THEN SkipStart(ls, start + 1)
    ELSE start

\* while end >= 0 and lines[end].strip() == '': end -= 1
RECURSIVE SkipEnd(_, _)
SkipEnd(ls, end) ==
    IF end >= 0 /\ IsBlank(ls[end + 1]) THEN SkipEnd(ls, end - 1) ELSE end

RECURSIVE chain(_)
chain(lists) == IF lists = <<>> THEN <<>> ELSE Head(lists) \o chain(Tail(lists))

\* repeated empty lines left as they are
CollapseNothing(ls) == ls

\* remove repeating empty lines
Collapse(ls) ==
    LET groups == groupby(ls, [i \in 1..Len(ls) |-> ~IsBlank(ls[i])])
    IN chain([g \in 1..Len(groups) |->
                IF groups[g].key THEN groups[g].group ELSE << <<>> >>])

_cleanup_lines(ls) ==
    IF ls = <<>> THEN ls
    ELSE LET start == SkipStart(ls, 0)
             l1 == SubSeq(ls, start + 1, Len(ls))
         IN IF l1 = <<>> THEN l1
            ELSE LET end == SkipEnd(l1, Len(l1) - 1)
                     l2 == SubSeq(l1, 1, end + 1)
                 IN IF l2 = <<>> THEN l2 ELSE Collapse(l2)

-----------------------------------------------------------------------------
(* _classify_lines                                                         *)

TEXT == 0
CODE == 1
UNDEFINED == -1
ABSORBED == -2

Digits == {"0", "1", "2", "3", "4", "5", "6", "7", "8", "9"}

\* re.match(r'[0-9]+\.', s)
RECURSIVE DigitsThenDot(_, _)
DigitsThenDot(s, seen) ==
    IF s = <<>> THEN FALSE
    ELSE IF Head(s) \in Digits THEN DigitsThenDot(Tail(s), TRUE)
    ELSE seen /\ Head(s) = "."

\* the indentation rule with a threshold of two spaces
LineTypeTwoSpaces(line) ==
    IF strip(line) = <<>> THEN UNDEFINED
    ELSE IF \/ startswith(strip(line), <<"*", " ">>)
            \/ DigitsThenDot(strip(line), FALSE)
         THEN TEXT
    ELSE IF startswith(line, Sp(2)) THEN CODE
    ELSE TEXT

\* the indentation rule tested before the whitelist
LineTypeIndentFirst(line) ==
    IF strip(line) = <<>> THEN UNDEFINED
    ELSE IF startswith(line, Sp(3)) THEN CODE
    ELSE IF \/ startswith(strip(line), <<"*", " ">>)
            \/ DigitsThenDot(strip(line), FALSE)
         THEN TEXT
    ELSE TEXT

_line_type(line) ==
    IF strip(line) = <<>> THEN UNDEFINED
    ELSE IF \/ startswith(strip(line), <<"*", " ">>)
            \/ DigitsThenDot(strip(line), FALSE)
         THEN TEXT
    ELSE IF startswith(line, Sp(3)) THEN CODE
    ELSE TEXT

\* for i in range(len(line_types) - 1): code absorbs the blank line after it
RECURSIVE AbsorbForward(_, _)
AbsorbForward(lt, i) ==
    IF i >= Len(lt) - 1 THEN lt
    ELSE AbsorbForward(
            IF lt[i + 1] = CODE /\ lt[i + 2] = UNDEFINED
            THEN [lt EXCEPT ![i + 2] = ABSORBED] ELSE lt,
            i + 1)

\* for i in range(len(line_types) - 1)[::-1]: code absorbs the blank line before it
RECURSIVE AbsorbBackward(_, _)
AbsorbBackward(lt, i) ==
    IF i < 0 THEN lt
    ELSE AbsorbBackward(
            IF lt[i + 1] = UNDEFINED /\ lt[i + 2] = CODE
            THEN [lt EXCEPT ![i + 1] = ABSORBED] ELSE lt,
            i - 1)

PassA(lt) ==
    LET a == AbsorbBackward(AbsorbForward(lt, 0), Len(lt) - 2)
    IN [i \in 1..Len(a) |-> IF a[i] = ABSORBED THEN CODE ELSE a[i]]

RECURSIVE TextForward(_, _)
TextForward(lt, i) ==
    IF i >= Len(lt) - 1 THEN lt
    ELSE TextForward(
            IF lt[i + 1] = TEXT /\ lt[i + 2] = UNDEFINED
            THEN [lt EXCEPT ![i + 2] = TEXT] ELSE lt,
            i + 1)

\* the backward scan left out
TextBackwardNothing(lt, i) == lt

RECURSIVE TextBackward(_, _)
TextBackward(lt, i) ==
    IF i < 0 THEN lt
    ELSE TextBackward(
            IF lt[i + 1] = UNDEFINED /\ lt[i + 2] = TEXT
            THEN [lt EXCEPT ![i + 1] = TEXT] ELSE lt,
            i - 1)

\* one iteration of `while changed`
Scan(lt) == TextBackward(TextForward(lt, 0), Len(lt) - 2)

\* the flag that is never reset at the top of the loop body
ChangedAlways(lt, next) == TRUE

\* `changed` at the end of an iteration that turned lt into next: every
\* assignment of the two scans turns a -1 into 0
Changed(lt, next) == next # lt

\* the loop runs until a scan assigns nothing; every assignment turns a -1 into 0,
\* so `changed` is set exactly when the scan's result differs from its input
RECURSIVE PassB(_, _)
PassB(lt, scans) ==
    LET next == Scan(lt)
    IN IF next = lt
       THEN [types |-> lt, scans |-> scans + 1]
       ELSE PassB(next, scans + 1)

\* the final pass left out
ResolveNothing(lt) == lt

Resolve(lt) == [i \in 1..Len(lt) |-> IF lt[i] = UNDEFINED THEN CODE ELSE lt[i]]

InitialTypes(ls) == [i \in 1..Len(ls) |-> _line_type(ls[i])]

\* the two repair passes in the other order
ClassifyTextFirst(ls) == Resolve(PassA(PassB(InitialTypes(ls), 0).types))

_classify_lines(ls) == Resolve(PassB(PassA(InitialTypes(ls)), 0).types)

-----------------------------------------------------------------------------
(* _wrap_lines                                                             *)

\* Python values of the `unindent_code` argument: False, True or an int
PyFalse  == [t |-> "bool", v |-> 0]
PyTrue   == [t |-> "bool", v |-> 1]
PyInt(n) == [t |-> "int", v |-> n]
Truthy(u) == u.v # 0
IsTrue(u) == u.t = "bool" /\ u.v = 1
PyOr(a, b) == IF Truthy(a) THEN a ELSE b
PyBool(b) == IF b THEN PyTrue ELSE PyFalse

\* width of textwrap.fill(), the library default
Width == 70

\* TextWrapper._split: maximal runs of whitespace and of non-whitespace
RECURSIVE Chunks(_)
Chunks(s) ==
    IF s = <<>> THEN <<>>
    ELSE LET other == {i \in 1..Len(s) :
                         (s[i] \in Whitespace) # (s[1] \in Whitespace)}
             n == IF other = {} THEN Len(s) ELSE Min(other) - 1
         IN <<SubSeq(s, 1, n)>> \o Chunks(SubSeq(s, n + 1, Len(s)))

\* inner `while chunks` of TextWrapper._wrap_chunks: take the chunks that fit
RECURSIVE FillLine(_, _, _)
FillLine(chunks, cur, curlen) ==
    IF chunks # <<>> /\ curlen + Len(Head(chunks)) <= Width
    THEN FillLine(Tail(chunks), Append(cur, Head(chunks)),
                  curlen + Len(Head(chunks)))
    ELSE [cur |-> cur, rest |-> chunks, len |-> curlen]

\* TextWrapper._wrap_chunks (drop_whitespace, break_long_words, no indents)
RECURSIVE WrapChunks(_, _)
WrapChunks(chunks, out) ==
    IF chunks = <<>> THEN out
    ELSE LET c0 == IF IsBlank(Head(chunks)) /\ out # <<>>
                   THEN Tail(chunks) ELSE chunks
             f == FillLine(c0, <<>>, 0)
             w == IF f.rest # <<>> /\ Len(Head(f.rest)) > Width
                  THEN LET left == Width - f.len
                           word == Head(f.rest)
                       IN [cur |-> Append(f.cur, SubSeq(word, 1, left)),
                           rest |-> <<SubSeq(word, left + 1, Len(word))>>
                                    \o Tail(f.rest)]
                  ELSE [cur |-> f.cur, rest |-> f.rest]
             cur == IF w.cur # <<>> /\ IsBlank(w.cur[Len(w.cur)])
                    THEN SubSeq(w.cur, 1, Len(w.cur) - 1) ELSE w.cur
         IN WrapChunks(w.rest,
                       IF cur # <<>> THEN Append(out, chain(cur)) ELSE out)

\* textwrap.fill(line)
fill(line) == join(WrapChunks(Chunks(line), <<>>))

\* unindenting that takes away all the leading spaces
UnindentAll(line, shift) ==
    IF shift = -1 /\ line # <<>> THEN <<" ">> \o line
    ELSE IF shift > 0 THEN lstrip(line)
    ELSE line

_unindent_code(line, shift) ==
    IF shift = -1 /\ line # <<>> THEN <<" ">> \o line
    ELSE IF shift > 0 /\ startswith(line, Sp(shift))
         THEN SubSeq(line, shift + 1, Len(line))
    ELSE line

\* the TEXT branch without the test for a blank line
WrapOneNoBlank(lc, unindent_code) ==
    IF lc[1] = 1
    THEN LET shift == IF Truthy(unindent_code)
                      THEN (IF IsTrue(unindent_code) THEN 3 ELSE unindent_code.v)
                      ELSE -1
         IN << <<lc[1], _unindent_code(lc[2], shift)>> >>
    ELSE LET wrapped == splitlines(fill(lc[2]))
         IN [k \in 1..Len(wrapped) |-> <<lc[1], wrapped[k]>>]

\* what one (label, line) pair appends to `result`
WrapOne(lc, unindent_code) ==
    IF lc[1] = 1
    THEN LET shift == IF Truthy(unindent_code)
                      THEN (IF IsTrue(unindent_code) THEN 3 ELSE unindent_code.v)
                      ELSE -1
         IN << <<lc[1], _unindent_code(lc[2], shift)>> >>
    ELSE LET wrapped == splitlines(fill(lc[2]))
         IN (IF strip(lc[2]) = <<>> THEN << <<lc[1], <<>> >> >> ELSE <<>>)
            \o [k \in 1..Len(wrapped) |-> <<lc[1], wrapped[k]>>]

\* for every pair of the result, the index of the pair of lines_classes it was made from
Origins(lines_classes, unindent_code) ==
    chain([k \in 1..Len(lines_classes) |->
             [j \in 1..Len(WrapOne(lines_classes[k], unindent_code)) |-> k]])

_wrap_lines(lines_classes, unindent_code) ==
    chain([k \in 1..Len(lines_classes) |-> WrapOne(lines_classes[k], unindent_code)])

-----------------------------------------------------------------------------
(* code_blocks                                                             *)

zip(a, b) ==
    [k \in 1..(IF Len(a) < Len(b) THEN Len(a) ELSE Len(b)) |-> <<a[k], b[k]>>]

\* lines 271-275: the (label, line) pairs that are grouped into blocks
code_blocks_lines(text, wrap_lines, unindent_code) ==
    LET ls == splitlines(text)
        lines_classes == zip(_classify_lines(ls), ls)
    IN IF wrap_lines THEN _wrap_lines(lines_classes, unindent_code)
       ELSE lines_classes

\* groupby(lines_classes, key=lambda x: x[0])
Blocks(lines_classes) ==
    groupby(lines_classes, [k \in 1..Len(lines_classes) |-> lines_classes[k][1]])

code_blocks(text, wrap_lines, unindent_code) ==
    LET lines_blocks == Blocks(code_blocks_lines(text, wrap_lines, unindent_code))
    IN [b \in 1..Len(lines_blocks) |->
          <<lines_blocks[b].key,
            join([k \in 1..Len(lines_blocks[b].group) |-> lines_blocks[b].group[k][2]])
            \o <<"\n">> >>]

-----------------------------------------------------------------------------
(* _commenting_script, _run_vim_script, _beautify                          *)

\* languages_data.VIM_NAME: filetype -> name of the vim syntax
VIM_NAME == [f \in {"bash"} |-> "sh"]

_language_name(name) == IF name \in DOMAIN VIM_NAME THEN VIM_NAME[name] ELSE name

\* one line of the vim script
SetFt(ft)           == [cmd |-> "set ft", from |-> 0, to |-> 0, arg |-> ft]
NERDComment(a, b, t) == [cmd |-> "NERDComment", from |-> a, to |-> b, arg |-> t]
Wq                  == [cmd |-> "wq", from |-> 0, to |-> 0, arg |-> ""]

\* the loop with `block_start = block_end`: the next block starts on the
\* line the last one ended on
RECURSIVE ScriptLoopOverlap(_, _, _, _)
ScriptLoopOverlap(lines_blocks, filetype, block_start, script_lines) ==
    IF lines_blocks = <<>> THEN script_lines
    ELSE LET block == Head(lines_blocks)
             block_end == block_start + Len(block.group) - 1
             comment_type == IF block_end - block_start < 1 \/ filetype = "ruby"
                             THEN "comment" ELSE "sexy"
         IN ScriptLoopOverlap(Tail(lines_blocks), filetype, block_end,
                IF block.key = 0
                THEN <<NERDComment(block_start, block_end, "uncomment"),
                       NERDComment(block_start, block_end, comment_type)>>
                     \o script_lines
                ELSE script_lines)

\* the loop with append() in place of insert(0, ...)
RECURSIVE ScriptLoopAppend(_, _, _, _)
ScriptLoopAppend(lines_blocks, filetype, block_start, script_lines) ==
    IF lines_blocks = <<>> THEN script_lines
    ELSE LET block == Head(lines_blocks)
             block_end == block_start + Len(block.group) - 1
             comment_type == IF block_end - block_start < 1 \/ filetype = "ruby"
                             THEN "comment" ELSE "sexy"
         IN ScriptLoopAppend(Tail(lines_blocks), filetype, block_end + 1,
                IF block.key = 0
                THEN script_lines
                     \o <<NERDComment(block_start, block_end, "uncomment"),
                          NERDComment(block_start, block_end, comment_type)>>
                ELSE script_lines)

\* the `for block in lines_blocks` loop; insert(0, ...) puts a line first
RECURSIVE ScriptLoop(_, _, _, _)
ScriptLoop(lines_blocks, filetype, block_start, script_lines) ==
    IF lines_blocks = <<>> THEN script_lines
    ELSE LET block == Head(lines_blocks)
             block_end == block_start + Len(block.group) - 1
             comment_type == IF block_end - block_start < 1 \/ filetype = "ruby"
                             THEN "comment" ELSE "sexy"
         IN ScriptLoop(Tail(lines_blocks), filetype, block_end + 1,
                IF block.key = 0
                THEN <<NERDComment(block_start, block_end, "uncomment"),
                       NERDComment(block_start, block_end, comment_type)>>
                     \o script_lines
                ELSE script_lines)

_commenting_script(lines_blocks, filetype) ==
    <<SetFt(_language_name(filetype))>>
    \o ScriptLoop(lines_blocks, filetype, 1, <<>>)
    \o <<Wq>>

\* The external editor run on the text file: every NERDComment command puts a
\* comment marker before (or takes it from) the lines of its range, and wq
\* writes the buffer back, each line ended by a newline.
VimCommand(buf, c) ==
    [i \in 1..Len(buf) |->
        IF c.cmd = "NERDComment" /\ i >= c.from /\ i <= c.to
        THEN IF c.arg = "uncomment"
             THEN (IF startswith(buf[i], <<"#">>) THEN Tail(buf[i]) ELSE buf[i])
             ELSE <<"#">> \o buf[i]
        ELSE buf[i]]

RECURSIVE VimRun(_, _)
VimRun(script_lines, buf) ==
    IF script_lines = <<>> THEN buf
    ELSE VimRun(Tail(script_lines), VimCommand(buf, Head(script_lines)))

VimWrite(buf) == chain([i \in 1..Len(buf) |-> buf[i] \o <<"\n">>])

\* What the vim process does to the text file: "ok" it runs the script and
\* rewrites the file; "failed" it exits (non-zero) without rewriting it.
VimOutcomes == {"ok", "failed"}

\* communicate() returns whatever the exit status is, and the file is read back
_run_vim_script(script_lines, text_lines, vim) ==
    LET textfile == join(text_lines)
    IN IF vim = "ok" THEN VimWrite(VimRun(script_lines, splitlines(textfile)))
       ELSE textfile

\* lines 239-245
BeautifyLines(text, add_comments, remove_text) ==
    LET unindent_code == PyOr(PyBool(add_comments), PyBool(remove_text))
        ls == _cleanup_lines(splitlines(text))
    IN _wrap_lines(zip(_classify_lines(ls), ls), unindent_code)

\* [line[1] for line in lines_classes if line[0] == 1]
CodeOnly(lines_classes) ==
    LET code == SelectSeq(lines_classes, LAMBDA lc : lc[1] = 1)
    IN [k \in 1..Len(code) |-> code[k][2]]

Second(lines_classes) == [k \in 1..Len(lines_classes) |-> lines_classes[k][2]]

\* the branches of lines 249-257 with add_comments tested first
UsesVimFirst(add_comments, remove_text) == add_comments

\* does this call of _beautify run the external editor?
UsesVim(add_comments, remove_text) == ~remove_text /\ add_comments

_beautify(text, filetype, add_comments, remove_text, vim) ==
    LET lines_classes == BeautifyLines(text, add_comments, remove_text)
    IN IF remove_text
       THEN LET output == join(_cleanup_lines(CodeOnly(lines_classes)))
            IN IF ~endswith(output, <<"\n">>) THEN output \o <<"\n">> ELSE output
       ELSE IF ~add_comments
       THEN join(Second(lines_classes))
       ELSE _run_vim_script(
                _commenting_script(Blocks(lines_classes), filetype),
                Second(lines_classes), vim)

-----------------------------------------------------------------------------
(* beautify: the cached entry point, one process per call                  *)

Reqs == {"r1", "r2"}

\* the `options` argument: None, or a dict given as its set of items
None == [none |-> TRUE, items |-> {}]
Dict(items) == [none |-> FALSE, items |-> items]

\* d.get(k): a missing key gives None, which is false
get(d, k) == \E p \in d : p[1] = k /\ p[2]

\* the options taken as they come, unknown keys included
AllOptions(options) ==
    IF options.none \/ options.items = {} THEN {} ELSE options.items

\* lines 290-292
beauty_options(options) ==
    LET opts == IF options.none \/ options.items = {} THEN {} ELSE options.items
    IN {p \in opts : p[1] \in {"add_comments", "remove_text"}}

\* lines 294-298
mode(bo) ==
    IF get(bo, "add_comments")
    THEN (IF get(bo, "remove_text") THEN "cq" ELSE "c")
    ELSE (IF get(bo, "remove_text") THEN "q" ELSE "")

\* hashlib.md5(text).hexdigest(): one digest per text
md5(text) == <<"md5", text>>

\* "t:%s:%s:%s" % (md5, lang, mode)
digest(text, lang, m) == <<"t", md5(text), lang, m>>

Digest(r) == digest(req[r].text, req[r].lang, mode(beauty_options(req[r].options)))

NoAnswer == [some |-> FALSE, val |-> <<>>]
Some(v) == [some |-> TRUE, val |-> v]

\* REDIS.get(digest)
RedisGet(d) == IF d \in DOMAIN cache THEN Some(cache[d]) ELSE NoAnswer

\* REDIS.set(digest, answer)
RedisSet(d, v) == [k \in DOMAIN cache \cup {d} |-> IF k = d THEN v ELSE cache[k]]

\* a test no cached value passes
HitNever(a) == FALSE

\* `if answer:` -- None and the empty string are false
Hit(a) == a.some /\ a.val # <<>>

Pending == [kind |-> "pending", val |-> <<>>]
Returned(v) == [kind |-> "returned", val |-> v]
Raised == [kind |-> "raised", val |-> <<>>]

\* the documents requests are made for
SomeExplanation ==
    <<"S", "o", "m", "e", " ", "e", "x", "p", "l", "a", "n", "a", "t", "i", "o", "n", ".">>
MoreText == <<"M", "o", "r", "e", " ", "t", "e", "x", "t", ".">>
XLine == Sp(4) \o <<"x", " ", "=", " ", "1">>
YLine == Sp(4) \o <<"y", " ", "=", " ", "2">>

\* "Some explanation.\n\n    x = 1\n    y = 2\n\nMore text.\n"
Example == join(<<SomeExplanation, <<>>, XLine, YLine, <<>>, MoreText>>) \o <<"\n">>

Texts == {Example, <<>>, <<"\n">> \o XLine}
Langs == {"python", "ruby"}
Options ==
    { None,
      Dict({}),
      Dict({<<"other", TRUE>>}),
      Dict({<<"add_comments", TRUE>>}),
      Dict({<<"add_comments", FALSE>>}),
      Dict({<<"remove_text", TRUE>>}),
      Dict({<<"add_comments", TRUE>>, <<"remove_text", TRUE>>}) }

\* beautify() up to the cache read: lines 290-304
Call(r) ==
    /\ pc[r] = "idle"
    /\ \E text \in Texts, lang \in Langs, options \in Options :
          /\ req' = [req EXCEPT ![r] = [text |-> text, lang |-> lang, options |-> options]]
          /\ IF beauty_options(options) = {}
             THEN /\ outcome' = [outcome EXCEPT ![r] = Returned(text)]
                  /\ pc' = [pc EXCEPT ![r] = "done"]
             ELSE /\ outcome' = outcome
                  /\ pc' = [pc EXCEPT ![r] = "get"]
    /\ UNCHANGED <<answer, trace, vimok, cache>>
    /\ UNCHANGED linesVars

\* line 305-307: answer = REDIS.get(digest); if answer: return answer
Get(r) ==
    /\ pc[r] = "get"
    /\ answer' = [answer EXCEPT ![r] = RedisGet(Digest(r))]
    /\ trace' = [trace EXCEPT ![r] = Append(@, "get")]
    /\ IF Hit(RedisGet(Digest(r)))
       THEN /\ outcome' = [outcome EXCEPT ![r] = Returned(RedisGet(Digest(r)).val)]
            /\ pc' = [pc EXCEPT ![r] = "done"]
       ELSE /\ outcome' = outcome
            /\ pc' = [pc EXCEPT ![r] = "build"]
    /\ UNCHANGED <<req, vimok, cache>>
    /\ UNCHANGED linesVars

\* line 305 when the cache cannot be reached: REDIS.get raises, nothing catches it
GetFails(r) ==
    /\ pc[r] = "get"
    /\ trace' = [trace EXCEPT ![r] = Append(@, "get")]
    /\ outcome' = [outcome EXCEPT ![r] = Raised]
    /\ pc' = [pc EXCEPT ![r] = "done"]
    /\ UNCHANGED <<req, answer, vimok, cache>>
    /\ UNCHANGED linesVars

AddComments(r) == get(beauty_options(req[r].options), "add_comments")
RemoveText(r) == get(beauty_options(req[r].options), "remove_text")

\* line 309: _beautify up to the point where it waits for the external editor
Build(r) ==
    /\ pc[r] = "build"
    /\ trace' = [trace EXCEPT ![r] = Append(@, "_beautify")]
    /\ IF UsesVim(AddComments(r), RemoveText(r))
       THEN /\ pc' = [pc EXCEPT ![r] = "vim"]
            /\ answer' = answer
       ELSE /\ pc' = [pc EXCEPT ![r] = "set"]
            /\ answer' = [answer EXCEPT ![r] =
                  Some(_beautify(req[r].text, req[r].lang,
                                 AddComments(r), RemoveText(r), "ok"))]
    /\ UNCHANGED <<req, outcome, vimok, cache>>
    /\ UNCHANGED linesVars

\* lines 260-264: the editor ends, one way or the other, and _beautify returns
Vim(r) ==
    /\ pc[r] = "vim"
    /\ \E vim \in VimOutcomes :
          /\ vimok' = [vimok EXCEPT ![r] = vim]
          /\ answer' = [answer EXCEPT ![r] =
                Some(_beautify(req[r].text, req[r].lang,
                               AddComments(r), RemoveText(r), vim))]
    /\ trace' = [trace EXCEPT ![r] = Append(@, "vim")]
    /\ pc' = [pc EXCEPT ![r] = "set"]
    /\ UNCHANGED <<req, outcome, cache>>
    /\ UNCHANGED linesVars

\* lines 311-312: REDIS.set(digest, answer); return answer
Set(r) ==
    /\ pc[r] = "set"
    /\ cache' = RedisSet(Digest(r), answer[r].val)
    /\ trace' = [trace EXCEPT ![r] = Append(@, "set")]
    /\ outcome' = [outcome EXCEPT ![r] = Returned(answer[r].val)]
    /\ pc' = [pc EXCEPT ![r] = "done"]
    /\ UNCHANGED <<req, answer, vimok>>
    /\ UNCHANGED linesVars

\* line 311 when the cache cannot be reached: REDIS.set raises, nothing catches it
SetFails(r) ==
    /\ pc[r] = "set"
    /\ trace' = [trace EXCEPT ![r] = Append(@, "set")]
    /\ outcome' = [outcome EXCEPT ![r] = Raised]
    /\ pc' = [pc EXCEPT ![r] = "done"]
    /\ UNCHANGED <<req, answer, vimok, cache>>
    /\ UNCHANGED linesVars

NoRequest == [text |-> <<>>, lang |-> "", options |-> None]

InitCalls ==
    /\ pc = [r \in Reqs |-> "idle"]
    /\ req = [r \in Reqs |-> NoRequest]
    /\ answer = [r \in Reqs |-> NoAnswer]
    /\ outcome = [r \in Reqs |-> Pending]
    /\ trace = [r \in Reqs |-> <<>>]
    /\ vimok = [r \in Reqs |-> "none"]
    /\ cache = [d \in {} |-> <<>>]

-----------------------------------------------------------------------------
(* the pure functions, applied to bounded documents                        *)

MaxLines == 4

W(n) == [i \in 1..n |-> "w"]

LineSet ==
    { <<>>,                                     \* empty
      Sp(3),                                    \* only spaces
      <<"x">>,                                  \* text
      Sp(4) \o <<"y">>,                         \* code
      Sp(4) \o <<"1", ".", "z">>,               \* indented numbered list item
      Sp(3) \o <<"*", " ", "q">>,               \* indented bulleted list item
      <<" ", "t", " ">>,                        \* text between spaces
      Sp(2) \o W(35) \o <<" ">> \o W(35) }      \* text longer than Width

Docs == UNION {[1..n -> LineSet] : n \in 0..MaxLines}

UnindentModes == {PyFalse, PyTrue, PyInt(4)}

\* the documents the pass-3 loop is run on step by step: one line of each
\* initial label (blank, TEXT, CODE), and longer documents than Docs has
MaxLoopLines == 6

LoopLineSet == {<<>>, <<"x">>, Sp(4) \o <<"y">>}

LoopDocs == UNION {[1..n -> LoopLineSet] : n \in 0..MaxLoopLines}

\* the variables no operation has set yet
InitRest ==
    /\ reflowed = <<>>
    /\ origin = <<>>
    /\ umode = PyFalse
    /\ script = <<>>
    /\ line_types = <<>>
    /\ changed = FALSE
    /\ nscans = 0

InitLines ==
    /\ doc \in Docs
    /\ lines = doc
    /\ prev = <<>>
    /\ labels = <<>>
    /\ blocks = <<>>
    /\ segmented = <<>>
    /\ last = "init"
    /\ ncleanup = 0
    /\ InitRest
    /\ InitCalls

Cleanup ==
    /\ last \in {"init", "_cleanup_lines"}
    /\ ncleanup < 2
    /\ prev' = lines
    /\ lines' = _cleanup_lines(lines)
    /\ ncleanup' = ncleanup + 1
    /\ last' = "_cleanup_lines"
    /\ UNCHANGED <<doc, labels, blocks, segmented, wrapVars, loopVars>>
    /\ UNCHANGED callVars

Classify ==
    /\ last \in {"init", "_cleanup_lines"}
    /\ ncleanup <= 1
    /\ labels' = _classify_lines(lines)
    /\ last' = "_classify_lines"
    /\ UNCHANGED <<doc, lines, prev, blocks, segmented, ncleanup, wrapVars, loopVars>>
    /\ UNCHANGED callVars

\* code_blocks(text, wrap_lines, unindent_code) for the text made of `lines`
CodeBlocks ==
    /\ last = "init"
    /\ \E wrap_lines \in BOOLEAN, unindent_code \in UnindentModes :
          /\ segmented' = code_blocks_lines(join(lines), wrap_lines, unindent_code)
          /\ blocks' = code_blocks(join(lines), wrap_lines, unindent_code)
    /\ last' = "code_blocks"
    /\ UNCHANGED <<doc, lines, prev, labels, ncleanup, wrapVars, loopVars>>
    /\ UNCHANGED callVars

\* _wrap_lines(zip(labels, lines), unindent_code), as lines 244-245 and 272-275 call it
Wrap ==
    /\ last = "_classify_lines"
    /\ \E unindent_code \in UnindentModes :
          /\ reflowed' = _wrap_lines(zip(labels, lines), unindent_code)
          /\ origin' = Origins(zip(labels, lines), unindent_code)
          /\ umode' = unindent_code
    /\ last' = "_wrap_lines"
    /\ UNCHANGED <<doc, lines, prev, labels, blocks, segmented, ncleanup, script, loopVars>>
    /\ UNCHANGED callVars

\* lines 258-259 of _beautify: the script for the blocks of the wrapped lines;
\* on this path unindent_code is True and the lines were cleaned once
CommentingScript ==
    /\ last = "_wrap_lines"
    /\ ncleanup = 1
    /\ IsTrue(umode)
    /\ \E filetype \in Langs :
          script' = _commenting_script(Blocks(reflowed), filetype)
    /\ last' = "_commenting_script"
    /\ UNCHANGED <<doc, lines, prev, labels, blocks, segmented, ncleanup,
                   reflowed, origin, umode, loopVars>>
    /\ UNCHANGED callVars

NextLines == Cleanup \/ Classify \/ CodeBlocks \/ Wrap \/ CommentingScript

SpecLines == InitLines /\ [][NextLines]_vars

-----------------------------------------------------------------------------
Init ==
    /\ doc = <<>>
    /\ lines = <<>>
    /\ prev = <<>>
    /\ labels = <<>>
    /\ blocks = <<>>
    /\ segmented = <<>>
    /\ last = "init"
    /\ ncleanup = 0
    /\ InitRest
    /\ InitCalls

Next ==
    \E r \in Reqs :
        \/ Call(r)
        \/ Get(r)
        \/ GetFails(r)
        \/ Build(r)
        \/ Vim(r)
        \/ Set(r)
        \/ SetFails(r)

Spec == Init /\ [][Next]_vars

-----------------------------------------------------------------------------
(* Properties of the pure functions, checked under SpecLines               *)

Classified == last = "_classify_lines"
Cleaned == last = "_cleanup_lines"
Segmented == last = "code_blocks"

\* C1: _classify_lines returns one label per input line, and every label is
\* TEXT (0) or CODE (1): neither UNDEFINED (-1) nor the absorbed tag (-2) is returned.
C1_LabelCoverage ==
    Classified =>
        /\ Len(labels) = Len(lines)
        /\ \A i \in 1..Len(labels) : labels[i] \in {TEXT, CODE}

\* C1 witness: a classified four-line document with a blank line, a code line,
\* an indented list item and a plain line
C1_Witness ==
    /\ Classified
    /\ Len(lines) = 4
    /\ \E i, j, k, l \in 1..4 :
          /\ lines[i] = <<>>
          /\ lines[j] = Sp(4) \o <<"y">>
          /\ lines[k] = Sp(4) \o <<"1", ".", "z">>
          /\ lines[l] = <<"x">>

\* the first classification of line i (line 111)
BlankAt(ls, i) == _line_type(ls[i]) = UNDEFINED
CodeAt(ls, i) == _line_type(ls[i]) = CODE
TextAt(ls, i) == _line_type(ls[i]) = TEXT

\* C2: a blank line right before or right after a line first classified CODE is
\* labelled CODE, whatever its other neighbour is.
C2_AbsorbedIsCode ==
    Classified =>
        \A i \in 1..Len(lines) :
            ( /\ BlankAt(lines, i)
              /\ \/ (i > 1 /\ CodeAt(lines, i - 1))
                 \/ (i < Len(lines) /\ CodeAt(lines, i + 1)) )
            => labels[i] = CODE

\* C2 witness: [text, blank, code] classified TEXT, CODE, CODE
C2_Witness ==
    /\ Classified
    /\ \E i \in 2..(Len(lines) - 1) :
          /\ TextAt(lines, i - 1) /\ BlankAt(lines, i) /\ CodeAt(lines, i + 1)
          /\ labels[i - 1] = TEXT /\ labels[i] = CODE /\ labels[i + 1] = CODE

\* C4: _cleanup_lines applied to its own result returns it unchanged.
C4_CleanupIdempotent ==
    (Cleaned /\ ncleanup = 2) => lines = prev

\* C4 witness: a second cleanup of a document the first cleanup changed, which
\* still holds a blank line
C4_Witness ==
    /\ Cleaned
    /\ ncleanup = 2
    /\ prev # doc
    /\ \E i \in 1..Len(lines) : lines[i] = <<>>
    /\ \E i \in 1..Len(doc) : doc[i] = Sp(3)

NonBlank(ls) == SelectSeq(ls, LAMBDA l : ~IsBlank(l))
AllBlank(ls) == \A i \in 1..Len(ls) : IsBlank(ls[i])

\* C5: the result of _cleanup_lines starts and ends with a non-blank line, has no
\* two blank lines in a row, keeps the non-blank lines of the input as they are
\* and in order, and is empty when the input is empty or all blank.
C5_CleanupResult ==
    Cleaned =>
        /\ lines # <<>> => (~IsBlank(lines[1]) /\ ~IsBlank(lines[Len(lines)]))
        /\ \A i \in 1..(Len(lines) - 1) : ~(IsBlank(lines[i]) /\ IsBlank(lines[i + 1]))
        /\ NonBlank(lines) = NonBlank(prev)
        /\ AllBlank(prev) => lines = <<>>

\* C5 witness: the cleanup of a document with two blank lines in a row between
\* two non-blank lines
C5_Witness ==
    /\ Cleaned
    /\ ncleanup = 1
    /\ Len(prev) = 4
    /\ ~IsBlank(prev[1]) /\ IsBlank(prev[2]) /\ IsBlank(prev[3]) /\ ~IsBlank(prev[4])
    /\ Len(lines) = 3

\* C5 second case: an all-blank document cleaned to the empty sequence
C5_WitnessAllBlank ==
    /\ Cleaned
    /\ ncleanup = 1
    /\ Len(prev) > 1
    /\ AllBlank(prev)
    /\ lines = <<>>

\* the number of lines of a block: the newlines of its text
NewLines(text) == Cardinality({i \in 1..Len(text) : text[i] = "\n"})

RECURSIVE Sum(_)
Sum(ns) == IF ns = <<>> THEN 0 ELSE Head(ns) + Sum(Tail(ns))

\* the lines of a block's text, each with the block's label
BlockLines(block) ==
    LET ls == splitlines(block[2])
    IN [k \in 1..Len(ls) |-> <<block[1], ls[k]>>]

\* C6: no two adjacent blocks of code_blocks share a label, the blocks come in
\* document order, and their line counts add up to the number of lines segmented.
C6_Blocks ==
    Segmented =>
        /\ \A b \in 1..(Len(blocks) - 1) : blocks[b][1] # blocks[b + 1][1]
        /\ Sum([b \in 1..Len(blocks) |-> NewLines(blocks[b][2])]) = Len(segmented)
        /\ chain([b \in 1..Len(blocks) |-> BlockLines(blocks[b])]) = segmented

\* C6 witness: three blocks or more, of a document that reflow made longer
C6_Witness ==
    /\ Segmented
    /\ Len(blocks) >= 3
    /\ Len(segmented) > Len(doc)

-----------------------------------------------------------------------------
(* Properties of beautify, checked under Spec                              *)

Done(r) == pc[r] = "done"

RemoveTextOnly == Dict({<<"remove_text", TRUE>>})
AddCommentsOnly == Dict({<<"add_comments", TRUE>>})

\* "x = 1\ny = 2\n"
CodeFlushLeft == <<"x", " ", "=", " ", "1", "\n", "y", " ", "=", " ", "2", "\n">>

\* C3: remove-text mode turns the example document (text, blank, two code lines
\* indented by four spaces, blank, text) into the two code lines with no leading
\* indentation left.
C3_RemoveTextExample ==
    \A r \in Reqs :
        ( /\ Done(r)
          /\ req[r].text = Example
          /\ req[r].options = RemoveTextOnly
          /\ outcome[r].kind = "returned" )
        => outcome[r].val = CodeFlushLeft

\* what the code returns for the example: each code line keeps one space
C3_Observed ==
    \A r \in Reqs :
        ( /\ Done(r)
          /\ req[r].text = Example
          /\ req[r].options = RemoveTextOnly
          /\ outcome[r].kind = "returned" )
        => outcome[r].val = <<" ">> \o SubSeq(CodeFlushLeft, 1, 6)
                            \o <<" ">> \o SubSeq(CodeFlushLeft, 7, 12)

\* C7: when the external editor fails during an add-comments request, the
\* caller gets a failure, not a returned text.
C7_VimFailureSurfaced ==
    \A r \in Reqs :
        (Done(r) /\ vimok[r] = "failed") => outcome[r].kind # "returned"

\* the part of C7 the code keeps: the editor is run at most once per request
C7_NoRetry ==
    \A r \in Reqs :
        Cardinality({k \in 1..Len(trace[r]) : trace[r][k] = "vim"}) <= 1

\* C8: a request that asked for a transformation always ends with a returned
\* result, also when the cache read or the cache write failed.
C8_CacheFailureNotFatal ==
    \A r \in Reqs : Done(r) => outcome[r].kind = "returned"

Building(r) == pc[r] \in {"build", "vim"}

\* C9: nothing but the request's own cache read decides whether it builds: a
\* request is building only after it read the cache and got no usable value,
\* so two requests that both read before either wrote both build.
C9_BuildOnlyAfterMiss ==
    \A r \in Reqs :
        Building(r) =>
            /\ trace[r][1] = "get"
            /\ ~answer[r].some \/ answer[r].val = <<>>

\* C9 witness: two requests with the same fingerprint, both waiting for their
\* own run of the external editor, the cache still empty
C9_TwoBuilds ==
    \E r1, r2 \in Reqs :
        /\ r1 # r2
        /\ pc[r1] = "vim" /\ pc[r2] = "vim"
        /\ Digest(r1) = Digest(r2)
        /\ req[r1] = req[r2]
        /\ trace[r1] = <<"get", "_beautify">> /\ trace[r2] = <<"get", "_beautify">>
        /\ DOMAIN cache = {}

\* options with neither add_comments nor remove_text: None, {} or other keys only
NoKnownOption(options) ==
    \/ options.none
    \/ ~\E p \in options.items : p[1] \in {"add_comments", "remove_text"}

\* C10: a call with no recognised option returns the text as it is, and reads
\* no cache, writes no cache and runs no external editor.
C10_IdentityNoEffect ==
    [][\A r \in Reqs :
          ( /\ pc[r] = "idle"
            /\ pc'[r] # "idle"
            /\ NoKnownOption(req'[r].options) )
          => /\ pc'[r] = "done"
             /\ outcome'[r] = Returned(req'[r].text)
             /\ trace'[r] = <<>>
             /\ cache' = cache
             /\ answer' = answer
             /\ vimok' = vimok
             /\ \A q \in Reqs \ {r} :
                   /\ pc'[q] = pc[q]
                   /\ outcome'[q] = outcome[q]
                   /\ trace'[q] = trace[q]]_vars

\* C10 witness: finished calls with None, {} and an unknown key, on a cache
\* that holds a value
C10_Witness ==
    \E r \in Reqs :
        /\ Done(r)
        /\ req[r].options \in {None, Dict({}), Dict({<<"other", TRUE>>})}
        /\ req[r].text = Example
        /\ outcome[r] = Returned(Example)
        /\ trace[r] = <<>>
        /\ DOMAIN cache # {}

\* _classify_lines one loop iteration at a time: the call with its argument
\* and lines 111-128, then one iteration of `while changed` per step, then
\* lines 144-146
LoopStart ==
    /\ last = "init"
    /\ \E ls \in LoopDocs :
          /\ doc' = ls
          /\ lines' = ls
          /\ line_types' = PassA(InitialTypes(ls))
    /\ changed' = TRUE
    /\ nscans' = 0
    /\ last' = "pass 3"
    /\ UNCHANGED <<prev, labels, blocks, segmented, ncleanup, wrapVars>>
    /\ UNCHANGED callVars

LoopScan ==
    /\ last = "pass 3"
    /\ changed
    /\ line_types' = Scan(line_types)
    /\ changed' = Changed(line_types, Scan(line_types))
    /\ nscans' = nscans + 1
    /\ UNCHANGED <<doc, lines, prev, labels, blocks, segmented, last, ncleanup, wrapVars>>
    /\ UNCHANGED callVars

LoopEnd ==
    /\ last = "pass 3"
    /\ ~changed
    /\ labels' = Resolve(line_types)
    /\ last' = "_classify_lines"
    /\ UNCHANGED <<doc, lines, prev, blocks, segmented, ncleanup, wrapVars, loopVars>>
    /\ UNCHANGED callVars

NextLoop == LoopStart \/ LoopScan \/ LoopEnd

\* the interpreter runs the function to its end: a step that can be taken is taken
\* it starts, as Spec does, before any call
SpecLoop == Init /\ [][NextLoop]_vars /\ WF_vars(NextLoop)

(***************************************************************************)
(* C11  passthrough mode on documents without deep indentation             *)

Wrapped == last = "_wrap_lines"

\* the state _beautify(text, filetype, add_comments=False, remove_text=False)
\* is in at line 245: cleaned once, classified, wrapped with unindent_code False
Passthrough == Wrapped /\ ncleanup = 1 /\ umode = PyFalse

LeadingSpaces(line) == Len(line) - Len(lstrip(line))

NoDeepIndent(ls) == \A i \in 1..Len(ls) : ~startswith(ls[i], Sp(3))

\* the output lines made from line i
Outputs(i) == {k \in 1..Len(reflowed) : origin[k] = i}

NumberedItem(s) ==
    \E n \in 1..(Len(s) - 1) :
        (\A j \in 1..n : s[j] \in Digits) /\ s[n + 1] = "."

ListItem(line) ==
    /\ ~IsBlank(line)
    /\ \/ startswith(strip(line), <<"*", " ">>)
       \/ NumberedItem(strip(line))

\* C12: every non-blank line whose trimmed content starts with "* " or with
\* digits followed by "." is labelled TEXT by _classify_lines, however many
\* leading spaces it has, and the repair passes leave that label alone.
C12_ListItemsAreText ==
    Classified =>
        \A i \in 1..Len(lines) :
            ListItem(lines[i]) =>
                /\ _line_type(lines[i]) = TEXT
                /\ PassA(InitialTypes(lines))[i] = TEXT
                /\ labels[i] = TEXT

\* C12 witness: a classified document with a list item of three or more
\* leading spaces that follows a CODE line and precedes a blank line
C12_Witness ==
    /\ Classified
    /\ \E i \in 2..(Len(lines) - 1) :
          /\ ListItem(lines[i])
          /\ LeadingSpaces(lines[i]) >= 3
          /\ labels[i] = TEXT
          /\ labels[i - 1] = CODE
          /\ BlankAt(lines, i + 1)

(***************************************************************************)
(* C13  the pass-3 loop terminates within a bounded number of scans        *)

\* C13: for every document, the empty one, a single line and an all-blank
\* one included, the `while changed` loop of _classify_lines ends, and the
\* number of forward+backward scans it makes never exceeds the number of
\* lines plus one.
C13_LoopTerminates ==
    /\ <>(last = "_classify_lines")
    /\ [](nscans <= Len(lines) + 1)

\* C13 witness: the loop has ended after two scans on a document of
\* MaxLoopLines lines, all blank but the first, which all took TEXT from it
C13_Witness ==
    /\ last = "_classify_lines"
    /\ nscans = 2
    /\ Len(lines) = MaxLoopLines
    /\ \A i \in 2..MaxLoopLines : BlankAt(lines, i) /\ labels[i] = TEXT

\* the other ends of the range: the empty document and an all-blank one
C13_WitnessOneScan ==
    /\ last = "_classify_lines"
    /\ nscans = 1
    /\ \A i \in 1..Len(lines) : BlankAt(lines, i) /\ labels[i] = CODE

\* the loop run step by step computes what _classify_lines computes at once
LoopAgrees ==
    (last = "_classify_lines" /\ nscans > 0) =>
        /\ labels = _classify_lines(lines)
        /\ nscans = PassB(PassA(InitialTypes(lines)), 0).scans

(***************************************************************************)
(* C14  the final label of a blank line                                    *)

\* a blank line next to a line that _line_type labels CODE
Absorbed(ls, i) ==
    /\ BlankAt(ls, i)
    /\ \/ i > 1 /\ CodeAt(ls, i - 1)
       \/ i < Len(ls) /\ CodeAt(ls, i + 1)

Free(ls, i) == BlankAt(ls, i) /\ ~Absorbed(ls, i)

\* first and last line of the maximal run of free blank lines around line i
RunStart(ls, i) == Min({a \in 1..i : \A j \in a..i : Free(ls, j)})
RunEnd(ls, i) == CHOOSE b \in i..Len(ls) :
                    /\ \A j \in i..b : Free(ls, j)
                    /\ b = Len(ls) \/ ~Free(ls, b + 1)

TextBeside(ls, i) ==
    \/ RunStart(ls, i) > 1 /\ TextAt(ls, RunStart(ls, i) - 1)
    \/ RunEnd(ls, i) < Len(ls) /\ TextAt(ls, RunEnd(ls, i) + 1)

\* C14: a blank line that is not next to an initially-CODE line ends TEXT
\* exactly when the maximal run of such blank lines around it has a TEXT line
\* right before or right after it; every other blank line (absorbed in pass 2,
\* or in a run bounded by CODE lines or the document's ends) ends CODE.
C14_BlankLabels ==
    Classified =>
        \A i \in 1..Len(lines) :
            BlankAt(lines, i) =>
                labels[i] = (IF Free(lines, i) /\ TextBeside(lines, i)
                             THEN TEXT ELSE CODE)

\* C14 witness: a blank line absorbed by the CODE line before it stays CODE
\* while the blank line after it takes TEXT from the line that follows
C14_Witness ==
    /\ Classified
    /\ \E i \in 2..(Len(lines) - 2) :
          /\ CodeAt(lines, i - 1)
          /\ Absorbed(lines, i) /\ labels[i] = CODE
          /\ Free(lines, i + 1) /\ labels[i + 1] = TEXT
          /\ TextAt(lines, i + 2)

\* a run of free blank lines bounded by an absorbed line and the document's
\* end, and an all-blank document: CODE throughout
C14_WitnessCodeRun ==
    /\ Classified
    /\ \/ /\ Len(lines) = 4
          /\ CodeAt(lines, 1)
          /\ \A i \in 3..4 : Free(lines, i) /\ labels[i] = CODE
       \/ /\ Len(lines) = 3
          /\ \A i \in 1..3 : Free(lines, i) /\ labels[i] = CODE

(***************************************************************************)
(* C15  add_comments and remove_text both set                              *)

BothOptions == Dict({<<"add_comments", TRUE>>, <<"remove_text", TRUE>>})

\* the request ran the transformation
Transformed(r) == \E k \in 1..Len(trace[r]) : trace[r][k] = "_beautify"

RanVim(r) == \E k \in 1..Len(trace[r]) : trace[r][k] = "vim"

\* C15 as stated: with both options set, a request that has finished the
\* transformation has run the external editor on the block script.
C15_BothRunsVim ==
    \A r \in Reqs :
        (req[r].options = BothOptions /\ Transformed(r) /\ pc[r] \in {"set", "done"})
        => RanVim(r)

\* C15 amended: with both options set the transformation takes the
\* remove-text branch: the external editor is never run, and the result is
\* the one remove_text alone gives, without the text lines.
C15_BothRemovesText ==
    \A r \in Reqs :
        (req[r].options = BothOptions /\ Transformed(r))
        => /\ ~RanVim(r)
           /\ pc[r] \in {"set", "done"}
           /\ answer[r] = Some(_beautify(req[r].text, req[r].lang, FALSE, TRUE, "ok"))
           /\ req[r].text = Example =>
                 answer[r].val = <<" ">> \o SubSeq(CodeFlushLeft, 1, 6)
                                 \o <<" ">> \o SubSeq(CodeFlushLeft, 7, 12)

\* C15 witness: a request for the example with both options set has returned
\* after the cache read, the transformation and the cache write
C15_Witness ==
    \E r \in Reqs :
        /\ Done(r)
        /\ req[r].options = BothOptions
        /\ req[r].text = Example
        /\ trace[r] = <<"get", "_beautify", "set">>
        /\ outcome[r] = Returned(answer[r].val)

(***************************************************************************)
(* C16  shape of the script _commenting_script builds                      *)

Scripted == last = "_commenting_script"

LabelAt(i) == reflowed[i][1]

IsUncomment(c) == c.cmd = "NERDComment" /\ c.arg = "uncomment"
IsComment(c) == c.cmd = "NERDComment" /\ c.arg # "uncomment"

Covers(c, i) == c.cmd = "NERDComment" /\ c.from <= i /\ i <= c.to

\* the range of c is a whole TEXT block of the wrapped lines
WholeTextBlock(c) ==
    /\ 1 <= c.from /\ c.from <= c.to /\ c.to <= Len(reflowed)
    /\ \A i \in c.from..c.to : LabelAt(i) = TEXT
    /\ c.from = 1 \/ LabelAt(c.from - 1) = CODE
    /\ c.to = Len(reflowed) \/ LabelAt(c.to + 1) = CODE

\* C16: the script starts with the set-filetype command and ends with wq; the
\* ranges of its commands are whole blocks, counted from 1 and inclusive, so
\* that every TEXT line is in the range of exactly one uncomment command and of
\* exactly one comment command, the uncomment command standing right before
\* the comment command of the same range, and no CODE line is in any range.
C16_ScriptShape ==
    Scripted =>
        /\ Len(script) >= 2
        /\ script[1].cmd = "set ft"
        /\ script[Len(script)].cmd = "wq"
        /\ \A k \in 2..(Len(script) - 1) :
              /\ script[k].cmd = "NERDComment"
              /\ WholeTextBlock(script[k])
              /\ IsUncomment(script[k]) =>
                    /\ IsComment(script[k + 1])
                    /\ script[k + 1].from = script[k].from
                    /\ script[k + 1].to = script[k].to
              /\ IsComment(script[k]) => IsUncomment(script[k - 1])
        /\ \A i \in 1..Len(reflowed) :
              IF LabelAt(i) = TEXT
              THEN /\ Cardinality({k \in 1..Len(script) :
                         IsUncomment(script[k]) /\ Covers(script[k], i)}) = 1
                   /\ Cardinality({k \in 1..Len(script) :
                         IsComment(script[k]) /\ Covers(script[k], i)}) = 1
              ELSE \A k \in 1..Len(script) : ~Covers(script[k], i)

\* C16 witness: a script for two TEXT blocks with a CODE block between them,
\* the first TEXT block made longer by wrapping
C16_Witness ==
    /\ Scripted
    /\ Len(script) = 6
    /\ Len(reflowed) > Len(lines)
    /\ \E k \in 2..5 : script[k].to - script[k].from >= 2
    /\ \E i \in 1..Len(reflowed) : LabelAt(i) = CODE

(***************************************************************************)
(* C19  the command pairs come in descending order of line range           *)

\* C19: in the script, the pairs of the TEXT blocks stand in strictly
\* descending order of line range: every command that comes after a pair has
\* a range that lies wholly below the range of that pair, so a pair is run
\* before any command for lines above it in the file.
C19_DescendingRanges ==
    Scripted =>
        \A k, m \in 2..(Len(script) - 1) :
            (k < m /\ script[k].from # script[m].from) =>
                script[m].to < script[k].from

\* C19 witness: a script of two pairs, the pair of the document's last TEXT
\* block first and the pair of its first TEXT block (starting at line 1) last
C19_Witness ==
    /\ Scripted
    /\ Len(script) = 6
    /\ script[2].to = Len(reflowed)
    /\ script[4].from = 1
    /\ script[2].from > script[4].to + 1

(***************************************************************************)
(* C17  what _wrap_lines does to a CODE line                               *)

\* the width N the flag stands for: 3 for True, the number itself otherwise
UnindentWidth == IF umode = PyTrue THEN 3 ELSE umode.v

C17_WitnessOff ==
    /\ Wrapped
    /\ umode = PyFalse
    /\ \E i \in 1..Len(lines), k \in 1..Len(reflowed) :
          /\ labels[i] = CODE /\ origin[k] = i
          /\ LeadingSpaces(lines[i]) = 4 /\ LeadingSpaces(reflowed[k][2]) = 5
    /\ \E i \in 1..Len(lines), k \in 1..Len(reflowed) :
          /\ labels[i] = CODE /\ origin[k] = i
          /\ lines[i] = <<>> /\ reflowed[k][2] = <<>>

\* the same with width 4: a CODE line of three spaces is left as it is
C17_WitnessWidth ==
    /\ Wrapped
    /\ umode = PyInt(4)
    /\ \E i \in 1..Len(lines), k \in 1..Len(reflowed) :
          /\ labels[i] = CODE /\ origin[k] = i
          /\ lines[i] = Sp(3) /\ reflowed[k][2] = Sp(3)
    /\ \E i \in 1..Len(lines), k \in 1..Len(reflowed) :
          /\ labels[i] = CODE /\ origin[k] = i
          /\ LeadingSpaces(lines[i]) = 4 /\ ~IsBlank(lines[i])
          /\ LeadingSpaces(reflowed[k][2]) = 0

(***************************************************************************)
(* C20  _wrap_lines keeps the label structure                              *)

\* the labels of the blocks groupby cuts a list of (label, line) pairs into
BlockLabels(lines_classes) ==
    LET bs == Blocks(lines_classes)
    IN [b \in 1..Len(bs) |-> bs[b].key]

\* C20: every (label, line) pair given to _wrap_lines yields at least one
\* pair of the result, exactly one if it is a CODE line or a blank TEXT line,
\* all with the label of the pair they come from and in the order of the
\* input; so the wrapped lines fall into blocks with the same sequence of
\* labels as the lines before wrapping.
C20_LabelsKept ==
    Wrapped =>
        /\ Len(origin) = Len(reflowed)
        /\ \A i \in 1..Len(lines) :
              /\ Outputs(i) # {}
              /\ (labels[i] = CODE \/ IsBlank(lines[i])) => Cardinality(Outputs(i)) = 1
        /\ \A k \in 1..Len(reflowed) :
              /\ origin[k] \in 1..Len(lines)
              /\ reflowed[k][1] = labels[origin[k]]
              /\ k > 1 => origin[k - 1] <= origin[k]
        /\ BlockLabels(reflowed) = BlockLabels(zip(labels, lines))

\* C20 witness: wrapping made two lines out of a TEXT line and one out of a
\* blank TEXT line, in a document that has a CODE block too
C20_Witness ==
    /\ Wrapped
    /\ \E i \in 1..Len(lines) : labels[i] = TEXT /\ Cardinality(Outputs(i)) = 2
    /\ \E i \in 1..Len(lines) :
          labels[i] = TEXT /\ IsBlank(lines[i]) /\ Cardinality(Outputs(i)) = 1
    /\ Len(BlockLabels(reflowed)) >= 2

(***************************************************************************)
(* C18  read, then compute only on a miss, then write                      *)

\* C18: a request whose cache read found a value stored under its fingerprint
\* returns that value and does not go on to the transformation: a request
\* that is about to run _beautify read the cache and found nothing there.
C18_StoredValueReturned ==
    \A r \in Reqs :
        pc[r] = "build" => (trace[r] = <<"get">> /\ ~answer[r].some)

\* the state that breaks it: the cache holds the empty text under the
\* fingerprint of a request, which read it and is about to transform anyway
C18_EmptyValueIgnored ==
    \E r \in Reqs :
        /\ pc[r] = "build"
        /\ Digest(r) \in DOMAIN cache
        /\ cache[Digest(r)] = <<>>
        /\ answer[r] = Some(<<>>)

====
